---------------------------- MODULE Spec2Model ----------------------------
(***************************************************************************)
(* A model of src/src/sync/mcp-secrets.ts: extractMcpSecrets and its       *)
(* companions mergeOverrides, stripOverrideKeys and hasOverrides.          *)
(*                                                                         *)
(* A JavaScript string is a sequence of one-character strings.  A          *)
(* JavaScript value is a record tagged by t:                               *)
(*   [t |-> "str", v |-> <<chars>>]     a string                           *)
(*   [t |-> "num", v |-> n]             a number                           *)
(*   [t |-> "null"], [t |-> "undefined"]                                   *)
(*   [t |-> "arr", v |-> <<values>>]    an array                           *)
(*   [t |-> "obj", v |-> own, p |-> prototype]                             *)
(* an object: own maps each own enumerable key (a string) to its value and *)
(* p is the object's [[Prototype]].  The prototype is kept because         *)
(* setNestedValue reads and writes current[key] for keys taken from the    *)
(* document, and for the key __proto__ that is the accessor of             *)
(* Object.prototype, not an own property.                                  *)
(*                                                                         *)
(* A document is given with the insertion order of its server and header   *)
(* names, which is the order Object.entries walks them in.                 *)
(***************************************************************************)
EXTENDS Integers, Sequences, FiniteSets, TLC

VARIABLES
    pc,               \* position in the pipeline
    config,           \* the document handed to extractMcpSecrets
    sanitizedConfig,  \* extractMcpSecrets(config).sanitizedConfig
    secretOverrides,  \* extractMcpSecrets(config).secretOverrides
    merged,           \* mergeOverrides(sanitizedConfig, secretOverrides)
    again,            \* extractMcpSecrets(sanitizedConfig)
    stripBase,        \* first argument of stripOverrideKeys
    stripRemove,      \* second argument of stripOverrideKeys
    stripped,         \* stripOverrideKeys(stripBase, stripRemove)
    has               \* hasOverrides(secretOverrides)

vars == <<pc, config, sanitizedConfig, secretOverrides, merged, again,
          stripBase, stripRemove, stripped, has>>

-----------------------------------------------------------------------------
(* Characters and strings *)

LowerAlpha == <<"a", "b", "c", "d", "e", "f", "g", "h", "i", "j", "k", "l", "m", "n", "o", "p", "q", "r", "s", "t", "u", "v", "w", "x", "y", "z">>

UpperAlpha == <<"A", "B", "C", "D", "E", "F", "G", "H", "I", "J", "K", "L", "M", "N", "O", "P", "Q", "R", "S", "T", "U", "V", "W", "X", "Y", "Z">>

Range(s) == {s[i] : i \in DOMAIN s}

LowerSet == Range(LowerAlpha)

UpperSet == Range(UpperAlpha)

DigitSet == {"0", "1", "2", "3", "4", "5", "6", "7", "8", "9"}

\* What \s matches and what String.prototype.trim removes.
WhiteSpace == {" ", "\t", "\n", "\r"}

IndexOf(c, s) == CHOOSE i \in DOMAIN s : s[i] = c

\* String.prototype.toUpperCase / toLowerCase on one character.
toUpperCaseChar(c) == IF c \in LowerSet THEN UpperAlpha[IndexOf(c, LowerAlpha)] ELSE c

toLowerCaseChar(c) == IF c \in UpperSet THEN LowerAlpha[IndexOf(c, UpperAlpha)] ELSE c

toUpperCase(s) == [i \in DOMAIN s |-> toUpperCaseChar(s[i])]

toLowerCase(s) == [i \in DOMAIN s |-> toLowerCaseChar(s[i])]

\* const name = value; followed by body: Body at value, the value computed
\* once.
With(value, Body(_)) == Body(value)

\* The suffix of s that starts at index i.
From(s, i) == SubSeq(s, i, Len(s))

\* The length of the longest prefix of s whose characters are all in class.
RECURSIVE RunLength(_, _)
RunLength(s, class) ==
    IF s = <<>> \/ Head(s) \notin class THEN 0 ELSE 1 + RunLength(Tail(s), class)

\* The length of the longest prefix of s whose characters are all outside class.
RECURSIVE RunLengthNot(_, _)
RunLengthNot(s, class) ==
    IF s = <<>> \/ Head(s) \in class THEN 0 ELSE 1 + RunLengthNot(Tail(s), class)

Reverse(s) == [i \in DOMAIN s |-> s[Len(s) + 1 - i]]

\* s without its leading run, and without its trailing run, of characters
\* of class.
dropLeading(s, class) == From(s, RunLength(s, class) + 1)

dropTrailing(s, class) == SubSeq(s, 1, Len(s) - RunLength(Reverse(s), class))

\* String.prototype.trim.
trim(s) == dropTrailing(dropLeading(s, WhiteSpace), WhiteSpace)

-----------------------------------------------------------------------------
(* Environment-variable names *)

AlnumSet == LowerSet \cup UpperSet \cup DigitSet

\* .replace(/[^a-zA-Z0-9]+/g, '_'): every maximal run of characters outside
\* a-z, A-Z, 0-9 becomes one underscore.
RECURSIVE replaceNonAlnumRuns(_)
replaceNonAlnumRuns(s) ==
    IF s = <<>> THEN <<>>
    ELSE IF Head(s) \in AlnumSet THEN <<Head(s)>> \o replaceNonAlnumRuns(Tail(s))
    ELSE <<"_">> \o replaceNonAlnumRuns(From(s, RunLengthNot(s, AlnumSet) + 1))

\* .replace(/^_+|_+$/g, ''): the run of underscores at the start and the run
\* of underscores at the end are removed.
stripUnderscores(s) == dropTrailing(dropLeading(s, {"_"}), {"_"})

\* toEnvToken without its second replace: the underscores at the ends stay.
toEnvTokenKeepingUnderscores(input, fallback) ==
    With(replaceNonAlnumRuns(trim(input)), LAMBDA cleaned :
        IF cleaned = <<>> THEN fallback ELSE toUpperCase(cleaned))

toEnvToken(input, fallback) ==
    With(stripUnderscores(replaceNonAlnumRuns(trim(input))), LAMBDA cleaned :
        IF cleaned = <<>> THEN fallback ELSE toUpperCase(cleaned))

ENV_PREFIX == <<"O", "P", "E", "N", "C", "O", "D", "E", "_", "M", "C", "P", "_">>

FALLBACK_SERVER == <<"S", "E", "R", "V", "E", "R">>

FALLBACK_VALUE == <<"V", "A", "L", "U", "E">>

OAUTH_CLIENT_SECRET == <<"O", "A", "U", "T", "H", "_", "C", "L", "I", "E", "N", "T", "_", "S", "E", "C", "R", "E", "T">>

buildEnvVar(serverName, key) ==
    LET serverToken == toEnvToken(serverName, FALLBACK_SERVER)
        keyToken    == toEnvToken(key, FALLBACK_VALUE)
    IN  ENV_PREFIX \o serverToken \o <<"_">> \o keyToken

\* /^[A-Z0-9_]+$/.test(headerName)
isVerbatimName(headerName) ==
    /\ headerName # <<>>
    /\ \A i \in DOMAIN headerName : headerName[i] \in UpperSet \cup DigitSet \cup {"_"}

buildHeaderEnvVar(serverName, headerName) ==
    IF isVerbatimName(headerName) THEN headerName ELSE buildEnvVar(serverName, headerName)

-----------------------------------------------------------------------------
(* Placeholders *)

\* `{env:${envVar}}`
envPlaceholder(envVar) == <<"{", "e", "n", "v", ":">> \o envVar \o <<"}">>

\* /\{env:[^}]+\}/i matches s at index i: "{", then e, n, v in either case,
\* then ":", then one or more characters other than "}", then "}".
placeholderAt(s, i) ==
    /\ i + 6 <= Len(s)
    /\ s[i] = "{"
    /\ toLowerCaseChar(s[i + 1]) = "e"
    /\ toLowerCaseChar(s[i + 2]) = "n"
    /\ toLowerCaseChar(s[i + 3]) = "v"
    /\ s[i + 4] = ":"
    /\ LET n == RunLengthNot(From(s, i + 5), {"}"})
       IN  n >= 1 /\ i + 5 + n <= Len(s)

\* The pattern anchored at both ends, /^\{env:[^}]+\}$/i.
anchoredPlaceholderPattern(s) ==
    /\ placeholderAt(s, 1)
    /\ 5 + RunLengthNot(From(s, 6), {"}"}) + 1 = Len(s)

\* ENV_PLACEHOLDER_PATTERN.test(s): the pattern is not anchored.
ENV_PLACEHOLDER_PATTERN(s) == \E i \in DOMAIN s : placeholderAt(s, i)

isSecretString(value) ==
    /\ value.t = "str"
    /\ Len(value.v) > 0
    /\ ~ENV_PLACEHOLDER_PATTERN(value.v)

AUTHORIZATION == <<"a", "u", "t", "h", "o", "r", "i", "z", "a", "t", "i", "o", "n">>

PROXY_AUTHORIZATION == <<"p", "r", "o", "x", "y", "-", "a", "u", "t", "h", "o", "r", "i", "z", "a", "t", "i", "o", "n">>

isAuthorizationHeader(headerName) ==
    IF headerName = <<>> THEN FALSE
    ELSE LET normalized == toLowerCase(headerName)
         IN  normalized = AUTHORIZATION \/ normalized = PROXY_AUTHORIZATION

SchemeTail == AlnumSet \cup {"+", ".", "-"}

\* value.match(/^([A-Za-z][A-Za-z0-9+.-]*)\s+/): the length of match[0], 0
\* when there is no match.  Both quantifiers are greedy, and no scheme
\* character is white space, so the scheme is the whole run.
schemeMatch(value) ==
    IF value = <<>> \/ Head(value) \notin LowerSet \cup UpperSet THEN 0
    ELSE With(RunLength(value, SchemeTail), LAMBDA scheme :
         With(RunLength(From(value, scheme + 1), WhiteSpace), LAMBDA space :
             IF space = 0 THEN 0 ELSE scheme + space))

buildHeaderPlaceholder(value, envVar, headerName) ==
    IF ~isAuthorizationHeader(headerName) THEN envPlaceholder(envVar)
    ELSE With(schemeMatch(value), LAMBDA n :
             IF n > 0 THEN SubSeq(value, 1, n) \o envPlaceholder(envVar)
             ELSE envPlaceholder(envVar))

-----------------------------------------------------------------------------
(* JavaScript values *)

Str(s) == [t |-> "str", v |-> s]

Num(n) == [t |-> "num", v |-> n]

Null == [t |-> "null"]

Undefined == [t |-> "undefined"]

Arr(s) == [t |-> "arr", v |-> s]

\* Object.prototype: an object whose own [[Prototype]] is null.  Its own
\* members (constructor, toString, ...) are functions and are left out: the
\* code reads them only through isPlainObject, which rejects a function as
\* it rejects undefined.  Its __proto__ accessor is GetProperty's and
\* SetProperty's second case.
ObjectPrototype == [t |-> "obj", v |-> <<>>, p |-> Null]

\* An object literal or an object built by JSON.parse: own properties f,
\* prototype Object.prototype.
Obj(f) == [t |-> "obj", v |-> f, p |-> ObjectPrototype]

EmptyObject == Obj(<<>>)

MCP == <<"m", "c", "p">>

HEADERS == <<"h", "e", "a", "d", "e", "r", "s">>

OAUTH == <<"o", "a", "u", "t", "h">>

CLIENT_SECRET == <<"c", "l", "i", "e", "n", "t", "S", "e", "c", "r", "e", "t">>

PROTO == <<"_", "_", "p", "r", "o", "t", "o", "_", "_">>

hasOwn(target, key) == key \in DOMAIN target.v

\* target[key] read: an own property, else the inherited __proto__ getter
\* (the receiver's prototype), else the prototype chain.
RECURSIVE GetProperty(_, _)
GetProperty(target, key) ==
    IF target.t # "obj" THEN Undefined
    ELSE IF hasOwn(target, key) THEN target.v[key]
    ELSE IF key = PROTO THEN target.p
    ELSE GetProperty(target.p, key)

\* target[key] = value: an own property is overwritten; otherwise the
\* inherited __proto__ setter replaces the prototype when value is an object
\* and ignores any other value; any other key becomes an own property.
SetProperty(target, key, value) ==
    IF hasOwn(target, key) THEN [target EXCEPT !.v[key] = value]
    ELSE IF key = PROTO
         THEN IF value.t \in {"obj", "arr"} THEN [target EXCEPT !.p = value] ELSE target
    ELSE [target EXCEPT !.v = [k \in DOMAIN target.v \cup {key} |->
                                  IF k = key THEN value ELSE target.v[k]]]

\* The object target[key] refers to was mutated into child: the same store
\* seen from target (own property, prototype, or a property of the chain).
RECURSIVE StoreChild(_, _, _)
StoreChild(target, key, child) ==
    IF hasOwn(target, key) THEN [target EXCEPT !.v[key] = child]
    ELSE IF key = PROTO THEN [target EXCEPT !.p = child]
    ELSE [target EXCEPT !.p = StoreChild(target.p, key, child)]

isPlainObject(value) ==
    /\ value.t = "obj"
    /\ value.p = ObjectPrototype

getPlainObject(value) == IF isPlainObject(value) THEN value ELSE Null

\* JSON.parse(JSON.stringify(config)): the own enumerable properties,
\* rebuilt as fresh plain objects and arrays.
RECURSIVE cloneConfig(_)
cloneConfig(value) ==
    IF value.t = "obj" THEN Obj([k \in DOMAIN value.v |-> cloneConfig(value.v[k])])
    ELSE IF value.t = "arr" THEN Arr([i \in DOMAIN value.v |-> cloneConfig(value.v[i])])
    ELSE value

RECURSIVE setNestedFrom(_, _, _, _)
setNestedFrom(current, path, i, value) ==
    LET key == path[i]
    IN  IF i = Len(path) THEN SetProperty(current, key, value)
        ELSE With(IF ~isPlainObject(GetProperty(current, key))
                  THEN SetProperty(current, key, EmptyObject)
                  ELSE current, LAMBDA filled :
                 StoreChild(filled, key,
                            setNestedFrom(GetProperty(filled, key), path, i + 1, value)))

setNestedValue(target, path, value) == setNestedFrom(target, path, 1, value)

-----------------------------------------------------------------------------
(* extractMcpSecrets *)

\* extractHeader storing the placeholder under the variable's name instead
\* of the header's.
extractHeaderUnderEnvVar(acc, serverName, headerName) ==
    LET headerValue == acc.headers.v[headerName]
    IN  IF ~isSecretString(headerValue) THEN acc
        ELSE LET envVar      == buildHeaderEnvVar(serverName, headerName)
                 placeholder == buildHeaderPlaceholder(headerValue.v, envVar, headerName)
             IN  [headers |-> SetProperty(acc.headers, envVar, Str(placeholder)),
                  ov      |-> setNestedValue(acc.ov,
                                  <<MCP, serverName, HEADERS, headerName>>, headerValue)]

\* The loop body of lines 25-31 for one header; acc holds the headers
\* object of the clone and the overrides built so far.
extractHeader(acc, serverName, headerName) ==
    LET headerValue == acc.headers.v[headerName]
    IN  IF ~isSecretString(headerValue) THEN acc
        ELSE LET envVar      == buildHeaderEnvVar(serverName, headerName)
                 placeholder == buildHeaderPlaceholder(headerValue.v, envVar, headerName)
             IN  [headers |-> SetProperty(acc.headers, headerName, Str(placeholder)),
                  ov      |-> setNestedValue(acc.ov,
                                  <<MCP, serverName, HEADERS, headerName>>, headerValue)]

RECURSIVE extractHeaders(_, _, _, _)
extractHeaders(acc, serverName, names, i) ==
    IF i > Len(names) THEN acc
    ELSE extractHeaders(extractHeader(acc, serverName, names[i]), serverName, names, i + 1)

\* Lines 34-42; acc holds the oauth object of the clone and the overrides.
extractOauth(acc, serverName) ==
    LET clientSecret == GetProperty(acc.oauth, CLIENT_SECRET)
    IN  IF ~isSecretString(clientSecret) THEN acc
        ELSE LET envVar == buildEnvVar(serverName, OAUTH_CLIENT_SECRET)
             IN  [oauth |-> SetProperty(acc.oauth, CLIENT_SECRET, Str(envPlaceholder(envVar))),
                  ov    |-> setNestedValue(acc.ov,
                                <<MCP, serverName, OAUTH, CLIENT_SECRET>>, clientSecret)]

\* The entries of names that are keys of object, in the order of names:
\* Object.entries(object) when names lists the keys in insertion order.
entriesOf(object, names) == SelectSeq(names, LAMBDA k : hasOwn(object, k))

\* The loop body of lines 19-43 for one server; acc holds the mcp object of
\* the clone and the overrides built so far.
extractServer(acc, serverName, headerOrder) ==
    With(getPlainObject(acc.mcp.v[serverName]), LAMBDA serverConfig :
    IF serverConfig = Null THEN acc
    ELSE With(getPlainObject(GetProperty(serverConfig, HEADERS)), LAMBDA headers :
         With(IF headers = Null THEN [headers |-> Null, ov |-> acc.ov]
              ELSE extractHeaders([headers |-> headers, ov |-> acc.ov], serverName,
                                  entriesOf(headers, headerOrder), 1), LAMBDA h :
         With(IF headers = Null THEN serverConfig
              ELSE [serverConfig EXCEPT !.v[HEADERS] = h.headers], LAMBDA s1 :
         With(getPlainObject(GetProperty(s1, OAUTH)), LAMBDA oauth :
         With(IF oauth = Null THEN [oauth |-> Null, ov |-> h.ov]
              ELSE extractOauth([oauth |-> oauth, ov |-> h.ov], serverName), LAMBDA o :
         With(IF oauth = Null THEN s1 ELSE [s1 EXCEPT !.v[OAUTH] = o.oauth], LAMBDA s2 :
             [mcp |-> [acc.mcp EXCEPT !.v[serverName] = s2], ov |-> o.ov])))))))

RECURSIVE extractServers(_, _, _, _)
extractServers(acc, serverOrder, headerOrder, i) ==
    IF i > Len(serverOrder) THEN acc
    ELSE extractServers(extractServer(acc, serverOrder[i], headerOrder),
                        serverOrder, headerOrder, i + 1)

\* serverOrder and headerOrder list the keys of mcp and of the headers
\* objects in insertion order, the order Object.entries walks them in.
extractMcpSecrets(cfg, serverOrder, headerOrder) ==
    With(cloneConfig(cfg), LAMBDA clone :
    With(getPlainObject(GetProperty(clone, MCP)), LAMBDA mcp :
        IF mcp = Null THEN [sanitizedConfig |-> clone, secretOverrides |-> EmptyObject]
        ELSE With(extractServers([mcp |-> mcp, ov |-> EmptyObject],
                                 entriesOf(mcp, serverOrder), headerOrder, 1), LAMBDA r :
                 [sanitizedConfig |-> [clone EXCEPT !.v[MCP] = r.mcp],
                  secretOverrides |-> r.ov])))

-----------------------------------------------------------------------------
(* mergeOverrides, stripOverrideKeys, hasOverrides *)

\* deepMerge of ./config.js, which is not among the source files: for a key
\* of both, two plain mappings merge recursively and otherwise extra's value
\* wins; a key of one side only keeps that side's value.
RECURSIVE deepMerge(_, _)
deepMerge(base, extra) ==
    IF isPlainObject(base) /\ isPlainObject(extra)
    THEN Obj([k \in DOMAIN base.v \cup DOMAIN extra.v |->
                IF hasOwn(base, k) /\ hasOwn(extra, k) THEN deepMerge(base.v[k], extra.v[k])
                ELSE IF hasOwn(extra, k) THEN extra.v[k]
                ELSE base.v[k]])
    ELSE extra

mergeOverrides(base, extra) == deepMerge(base, extra)

\* The object o without its own property key: delete o[key].
deleteKey(o, key) == [o EXCEPT !.v = [k \in DOMAIN o.v \ {key} |-> o.v[k]]]

\* One pass of the loop of lines 135-152 over the keys of toRemove; the
\* keys are distinct and each pass touches only its own key of result.
RECURSIVE stripOverrideKeys(_, _)
RECURSIVE stripKeys(_, _, _)
RECURSIVE stripKeysKeepingEmpty(_, _, _)
\* stripKeys without the test of lines 143-147: an emptied mapping stays.
stripKeysKeepingEmpty(result, toRemove, keys) ==
    IF keys = {} THEN result
    ELSE LET key == CHOOSE k \in keys : TRUE
             removeValue == toRemove.v[key]
             next ==
                 IF ~hasOwn(result, key) THEN result
                 ELSE LET currentValue == result.v[key]
                      IN  IF isPlainObject(removeValue) /\ isPlainObject(currentValue)
                          THEN [result EXCEPT !.v[key] =
                                   stripOverrideKeys(currentValue, removeValue)]
                          ELSE deleteKey(result, key)
         IN  stripKeysKeepingEmpty(next, toRemove, keys \ {key})

stripKeys(result, toRemove, keys) ==
    IF keys = {} THEN result
    ELSE LET key == CHOOSE k \in keys : TRUE
             removeValue == toRemove.v[key]
             next ==
                 IF ~hasOwn(result, key) THEN result
                 ELSE LET currentValue == result.v[key]
                      IN  IF isPlainObject(removeValue) /\ isPlainObject(currentValue)
                          THEN LET inner == stripOverrideKeys(currentValue, removeValue)
                               IN  IF Cardinality(DOMAIN inner.v) = 0
                                   THEN deleteKey(result, key)
                                   ELSE [result EXCEPT !.v[key] = inner]
                          ELSE deleteKey(result, key)
         IN  stripKeys(next, toRemove, keys \ {key})

stripOverrideKeys(base, toRemove) ==
    IF ~isPlainObject(base) \/ ~isPlainObject(toRemove) THEN base
    ELSE stripKeys(Obj(base.v), toRemove, DOMAIN toRemove.v)

\* Object.keys(value).length > 0
hasOverrides(value) == Cardinality(DOMAIN value.v) > 0

-----------------------------------------------------------------------------
(* Input documents *)

\* The most entries (leaves) a generated document holds.
MaxEntries == 2

\* The longest generated server or header name.
MaxNameLen == 2

\* The JSON tree whose leaves are the entries of E; no path of E is a
\* prefix of another.
RECURSIVE TreeOf(_)
TreeOf(E) ==
    Obj([k \in {e.path[1] : e \in E} |->
            LET sub == {e \in E : e.path[1] = k}
            IN  IF \E e \in sub : Len(e.path) = 1
                THEN (CHOOSE e \in sub : Len(e.path) = 1).leaf
                ELSE TreeOf({[path |-> Tail(e.path), leaf |-> e.leaf] : e \in sub})])

IsPrefix(a, b) == Len(a) <= Len(b) /\ SubSeq(b, 1, Len(a)) = a

PrefixFree(E) == \A e1, e2 \in E : e1 # e2 => ~IsPrefix(e1.path, e2.path)

\* The sets of at most n members of the sequence pool.
PicksOf(pool, n) ==
    UNION {{Range(c) : c \in {c \in [1..k -> DOMAIN pool] : \A i \in 1..(k - 1) : c[i] < c[i + 1]}}
           : k \in 0..n}

TreesOf(pool, n) ==
    {TreeOf({pool[i] : i \in I}) : I \in {I \in PicksOf(pool, n) : PrefixFree({pool[i] : i \in I})}}

RECURSIVE SetToSeq(_)
SetToSeq(S) ==
    IF S = {} THEN <<>>
    ELSE LET x == CHOOSE x \in S : TRUE IN <<x>> \o SetToSeq(S \ {x})

\* Every order of the members of S.
RECURSIVE OrdersOf(_)
OrdersOf(S) ==
    IF S = {} THEN {<<>>}
    ELSE UNION {{<<x>> \o o : o \in OrdersOf(S \ {x})} : x \in S}

GITHUB == <<"g", "i", "t", "h", "u", "b">>

GITHUB_CAPS == <<"G", "i", "t", "H", "u", "b">>

API_KEY == <<"A", "P", "I", "_", "K", "E", "Y">>

AUTHORIZATION_HEADER == <<"A", "u", "t", "h", "o", "r", "i", "z", "a", "t", "i", "o", "n">>

TOKEN == Str(<<"t", "o", "k">>)

BEARER_TOKEN == Str(<<"B", "e", "a", "r", "e", "r", " ", "t", "o", "k">>)

ENV_X == Str(<<"{", "e", "n", "v", ":", "X", "}">>)

BEARER_ENV == Str(<<"B", "e", "a", "r", "e", "r", " ", "{", "E", "N", "V", ":", "x", "}">>)

DocServers == {GITHUB, GITHUB_CAPS, PROTO}

DocHeaders == {API_KEY, AUTHORIZATION_HEADER, PROTO}

DocHeaderValues == {TOKEN, BEARER_TOKEN, BEARER_ENV}

DocEntries ==
    {[path |-> <<MCP, s, HEADERS, h>>, leaf |-> x] :
        s \in DocServers, h \in DocHeaders, x \in DocHeaderValues}
    \cup {[path |-> <<MCP, s, OAUTH, CLIENT_SECRET>>, leaf |-> x] :
        s \in DocServers, x \in {TOKEN, ENV_X}}
    \cup {[path |-> <<MCP, GITHUB, OAUTH, <<"c", "l", "i", "e", "n", "t", "I", "d">>>>, leaf |-> Str(<<"p", "u", "b", "l", "i", "c">>)],
          [path |-> <<MCP, GITHUB, <<"t", "y", "p", "e">>>>, leaf |-> Str(<<"r", "e", "m", "o", "t", "e">>)],
          [path |-> <<MCP, GITHUB, HEADERS, API_KEY>>, leaf |-> Num(7)],
          [path |-> <<MCP, GITHUB, HEADERS>>, leaf |-> Arr(<<TOKEN>>)],
          [path |-> <<MCP, GITHUB, HEADERS>>, leaf |-> EmptyObject],
          [path |-> <<MCP, GITHUB, OAUTH>>, leaf |-> TOKEN],
          [path |-> <<MCP, GITHUB>>, leaf |-> TOKEN],
          [path |-> <<MCP>>, leaf |-> Arr(<<TOKEN>>)],
          [path |-> <<<<"t", "h", "e", "m", "e">>>>, leaf |-> Str(<<"d", "a", "r", "k">>)]}

Docs == TreesOf(SetToSeq(DocEntries), MaxEntries)

\* The value at path in the tree value, Undefined where the tree has none.
RECURSIVE At(_, _)
At(value, path) ==
    IF path = <<>> THEN value
    ELSE IF value.t = "obj" /\ hasOwn(value, Head(path)) THEN At(value.v[Head(path)], Tail(path))
    ELSE Undefined

KeysAt(value, path) == IF At(value, path).t = "obj" THEN DOMAIN At(value, path).v ELSE {}

\* The server names and the header names of a document: what an insertion
\* order of the document orders.
ServerKeys(cfg) == KeysAt(cfg, <<MCP>>)

HeaderKeys(cfg) == UNION {KeysAt(cfg, <<MCP, s, HEADERS>>) : s \in ServerKeys(cfg)}

\* Every string over alphabet of length at most n.
RECURSIVE StringsOver(_, _)
StringsOver(alphabet, n) ==
    IF n = 0 THEN {<<>>}
    ELSE LET shorter == StringsOver(alphabet, n - 1)
         IN  shorter \cup {s \o <<c>> : s \in shorter, c \in alphabet}

ServerAlphabet == {"a", "Z", "-"}

HeaderAlphabet == {"a", "Z", "1", "_", "-"}

CaseServers == {GITHUB, PROTO, <<" ", "m", "y", ".", "s", "e", "r", "v", "e", "r", " ">>}

CaseHeaders ==
    {AUTHORIZATION_HEADER, <<"A", "U", "T", "H", "O", "R", "I", "Z", "A", "T", "I", "O", "N">>, <<"p", "r", "o", "x", "y", "-", "A", "u", "t", "h", "o", "r", "i", "z", "a", "t", "i", "o", "n">>, <<"X", "-", "A", "u", "t", "h", "o", "r", "i", "z", "a", "t", "i", "o", "n">>,
     API_KEY, <<"x", "-", "a", "p", "i", "-", "k", "e", "y">>, PROTO, <<>>}

CaseValues ==
    {Str(a \o b \o c) :
        a \in {<<>>, <<"B", "e", "a", "r", "e", "r", " ">>, <<"B", "e", "a", "r", "e", "r">>, <<"b", "+", ".", "-", "1", " ", "\t">>, <<"9", " ">>},
        b \in {<<>>, <<"t", "o", "k">>, <<"{", "e", "n", "v", ":", "X", "}">>, <<"{", "E", "N", "V", ":", "x", "}">>, <<"{", "e", "n", "v", ":", "}">>, <<"{", "e", "n", "v", ":", "X">>},
        c \in {<<>>, <<"y">>}}
    \cup {Num(7), Null, Arr(<<TOKEN>>), EmptyObject}

HeaderCase(s, h, x) == TreeOf({[path |-> <<MCP, s, HEADERS, h>>, leaf |-> x]})

OauthCase(s, x) == TreeOf({[path |-> <<MCP, s, OAUTH, CLIENT_SECRET>>, leaf |-> x]})

\* The documents of the test suite.
CONTEXT7 == <<"c", "o", "n", "t", "e", "x", "t", "7">>

CONTEXT7_API_KEY == <<"C", "O", "N", "T", "E", "X", "T", "7", "_", "A", "P", "I", "_", "K", "E", "Y">>

GITLAB == <<"g", "i", "t", "l", "a", "b">>

TEST_CONTEXT7 ==
    TreeOf({[path |-> <<MCP, CONTEXT7, <<"t", "y", "p", "e">>>>, leaf |-> Str(<<"r", "e", "m", "o", "t", "e">>)],
            [path |-> <<MCP, CONTEXT7, <<"u", "r", "l">>>>, leaf |-> Str(<<"h", "t", "t", "p", "s", ":", "/", "/", "m", "c", "p", ".", "c", "o", "n", "t", "e", "x", "t", "7", ".", "c", "o", "m", "/", "m", "c", "p">>)],
            [path |-> <<MCP, CONTEXT7, HEADERS, CONTEXT7_API_KEY>>, leaf |-> Str(<<"c", "t", "x", "7", "-", "s", "e", "c", "r", "e", "t">>)]})

TEST_PLACEHOLDER ==
    TreeOf({[path |-> <<MCP, CONTEXT7, HEADERS, CONTEXT7_API_KEY>>,
             leaf |-> Str(<<"{", "e", "n", "v", ":", "C", "O", "N", "T", "E", "X", "T", "7", "_", "A", "P", "I", "_", "K", "E", "Y", "}">>)]})

TEST_GITHUB ==
    TreeOf({[path |-> <<MCP, GITHUB, HEADERS, AUTHORIZATION_HEADER>>,
             leaf |-> Str(<<"B", "e", "a", "r", "e", "r", " ", "g", "h", "p", "_", "e", "x", "a", "m", "p", "l", "e">>)],
            [path |-> <<MCP, GITHUB, OAUTH, <<"c", "l", "i", "e", "n", "t", "I", "d">>>>, leaf |-> Str(<<"p", "u", "b", "l", "i", "c">>)],
            [path |-> <<MCP, GITHUB, OAUTH, CLIENT_SECRET>>, leaf |-> Str(<<"s", "u", "p", "e", "r", "-", "s", "e", "c", "r", "e", "t">>)]})

TEST_GITLAB ==
    TreeOf({[path |-> <<MCP, GITLAB, HEADERS, AUTHORIZATION_HEADER>>,
             leaf |-> Str(<<"T", "o", "k", "e", "n", " ", "g", "l", "p", "a", "t", "-", "s", "e", "c", "r", "e", "t">>)]})

Cases ==
    {HeaderCase(s, h, TOKEN) :
        s \in StringsOver(ServerAlphabet, MaxNameLen), h \in StringsOver(HeaderAlphabet, MaxNameLen)}
    \cup {HeaderCase(s, h, x) : s \in CaseServers, h \in CaseHeaders, x \in CaseValues}
    \cup {OauthCase(s, x) : s \in CaseServers, x \in CaseValues}
    \cup {OauthCase(s, TOKEN) : s \in StringsOver(ServerAlphabet, MaxNameLen)}
    \cup {TEST_CONTEXT7, TEST_PLACEHOLDER, TEST_GITHUB, TEST_GITLAB}

\* Arguments of stripOverrideKeys: trees over the keys a and b, and values
\* that are no plain mapping.
StripEntries ==
    {[path |-> q, leaf |-> x] :
        q \in {<<<<"a">>>>, <<<<"b">>>>, <<<<"a">>, <<"a">>>>, <<<<"a">>, <<"b">>>>, <<<<"b">>, <<"a">>>>,
               <<<<"a">>, <<"a">>, <<"a">>>>, <<<<"a">>, <<"a">>, <<"b">>>>},
        x \in {Num(1), EmptyObject}}

StripArgs ==
    TreesOf(SetToSeq(StripEntries), MaxEntries) \cup {Arr(<<Num(1)>>), Str(<<"a">>), Null}

-----------------------------------------------------------------------------
(* The pipeline *)

Unset == [t |-> "unset"]

Init ==
    /\ pc = "input"
    /\ config \in Docs
    /\ sanitizedConfig = Unset
    /\ secretOverrides = Unset
    /\ merged = Unset
    /\ again = Unset
    /\ stripBase = Unset
    /\ stripRemove = Unset
    /\ stripped = Unset
    /\ has = Unset

Extract ==
    /\ pc = "input"
    /\ \E serverOrder \in OrdersOf(ServerKeys(config)),
          headerOrder \in OrdersOf(HeaderKeys(config)) :
          \E r \in {extractMcpSecrets(config, serverOrder, headerOrder)} :
              /\ sanitizedConfig' = r.sanitizedConfig
              /\ secretOverrides' = r.secretOverrides
    /\ pc' = "extracted"
    /\ UNCHANGED <<config, merged, again, stripBase, stripRemove, stripped, has>>

Merge ==
    /\ pc = "extracted"
    /\ merged' = mergeOverrides(sanitizedConfig, secretOverrides)
    /\ pc' = "merged"
    /\ UNCHANGED <<config, sanitizedConfig, secretOverrides, again, stripBase, stripRemove,
                   stripped, has>>

ExtractAgain ==
    /\ pc = "extracted"
    /\ \E serverOrder \in OrdersOf(ServerKeys(sanitizedConfig)),
          headerOrder \in OrdersOf(HeaderKeys(sanitizedConfig)) :
          again' = extractMcpSecrets(sanitizedConfig, serverOrder, headerOrder)
    /\ pc' = "again"
    /\ UNCHANGED <<config, sanitizedConfig, secretOverrides, merged, stripBase, stripRemove,
                   stripped, has>>

HasOverrides ==
    /\ pc = "extracted"
    /\ has' = hasOverrides(secretOverrides)
    /\ pc' = "checked"
    /\ UNCHANGED <<config, sanitizedConfig, secretOverrides, merged, again, stripBase,
                   stripRemove, stripped>>

Next == Extract \/ Merge \/ ExtractAgain \/ HasOverrides

\* The pipeline over documents of up to MaxEntries entries.
Spec == Init /\ [][Next]_vars

InitCases ==
    /\ pc = "input"
    /\ config \in Cases
    /\ sanitizedConfig = Unset
    /\ secretOverrides = Unset
    /\ merged = Unset
    /\ again = Unset
    /\ stripBase = Unset
    /\ stripRemove = Unset
    /\ stripped = Unset
    /\ has = Unset

\* The pipeline over documents of one header or one client secret, with
\* names and values drawn from larger sets, and over the test suite's.
SpecCases == InitCases /\ [][Next]_vars

InitStrip ==
    /\ pc = "strip"
    /\ stripBase \in StripArgs
    /\ stripRemove \in StripArgs
    /\ stripped = Unset
    /\ config = Unset
    /\ sanitizedConfig = Unset
    /\ secretOverrides = Unset
    /\ merged = Unset
    /\ again = Unset
    /\ has = Unset

Strip ==
    /\ pc = "strip"
    /\ stripped' = stripOverrideKeys(stripBase, stripRemove)
    /\ pc' = "stripped"
    /\ UNCHANGED <<config, sanitizedConfig, secretOverrides, merged, again, stripBase,
                   stripRemove, has>>

NextStrip == Strip

\* stripOverrideKeys over pairs of arguments.
SpecStrip == InitStrip /\ [][NextStrip]_vars

-----------------------------------------------------------------------------
(* What the claims speak of *)

\* extractMcpSecrets has returned.
Done == pc \in {"extracted", "merged", "again", "checked"}

\* The own enumerable properties of a value, as deep equality and a JSON
\* file see it.
RECURSIVE OwnTree(_)
OwnTree(value) ==
    IF value.t = "obj" THEN Obj([k \in DOMAIN value.v |-> OwnTree(value.v[k])])
    ELSE IF value.t = "arr" THEN Arr([i \in DOMAIN value.v |-> OwnTree(value.v[i])])
    ELSE value

\* The paths of all nodes of a tree, and of its leaves that are no mapping.
RECURSIVE AllPaths(_)
AllPaths(value) ==
    {<<>>} \cup (IF value.t # "obj" THEN {}
                 ELSE UNION {{<<k>> \o q : q \in AllPaths(value.v[k])} : k \in DOMAIN value.v})

LeafPaths(value) == {q \in AllPaths(value) : At(value, q).t # "obj"}

HeaderPaths(cfg) ==
    UNION {{<<MCP, s, HEADERS, h>> : h \in KeysAt(cfg, <<MCP, s, HEADERS>>)} : s \in ServerKeys(cfg)}

OauthPaths(cfg) ==
    {<<MCP, s, OAUTH, CLIENT_SECRET>> : s \in {s \in ServerKeys(cfg) :
        At(cfg, <<MCP, s, OAUTH, CLIENT_SECRET>>) # Undefined}}

\* The paths mcp.<server>.headers.<header> and mcp.<server>.oauth.clientSecret.
SecretLocations(cfg) == HeaderPaths(cfg) \cup OauthPaths(cfg)

\* s holds {env:<name>} somewhere: env in any letter case, the name one or
\* more characters other than "}".
ContainsPlaceholder(s) ==
    \E i, j \in DOMAIN s :
        /\ j >= i + 6
        /\ toLowerCase(SubSeq(s, i, i + 4)) = <<"{", "e", "n", "v", ":">>
        /\ s[j] = "}"
        /\ \A k \in (i + 5)..(j - 1) : s[k] # "}"

\* s is {env:<name>} and nothing else.
IsBarePlaceholder(s) ==
    /\ Len(s) >= 7
    /\ toLowerCase(SubSeq(s, 1, 5)) = <<"{", "e", "n", "v", ":">>
    /\ s[Len(s)] = "}"
    /\ \A k \in 6..(Len(s) - 1) : s[k] # "}"

\* s is a scheme token (a letter, then letters, digits, "+", "." or "-")
\* followed by white space.
IsSchemePrefix(s) ==
    \E m \in 1..(Len(s) - 1) :
        /\ s[1] \in LowerSet \cup UpperSet
        /\ \A k \in 2..m : s[k] \in LowerSet \cup UpperSet \cup DigitSet \cup {"+", ".", "-"}
        /\ \A k \in (m + 1)..Len(s) : s[k] \in WhiteSpace

\* The scheme prefixes s begins with, each with all the white space after the token.
SchemePrefixesOf(s) ==
    {q \in {SubSeq(s, 1, n) : n \in 1..Len(s)} :
        /\ IsSchemePrefix(q)
        /\ Len(q) < Len(s) => s[Len(q) + 1] \notin WhiteSpace}

\* A placeholder string: {env:<name>}, or a scheme prefix and then {env:<name>}.
IsPlaceholderString(s) ==
    \E n \in 0..Len(s) :
        /\ n = 0 \/ IsSchemePrefix(SubSeq(s, 1, n))
        /\ IsBarePlaceholder(From(s, n + 1))

\* A secret: a non-empty string that holds no placeholder.
IsSecret(x) == x.t = "str" /\ x.v # <<>> /\ ~ContainsPlaceholder(x.v)

SecretPaths(cfg) == {q \in SecretLocations(cfg) : IsSecret(At(cfg, q))}

\* The variable name inside the placeholder of a sanitized value: what
\* stands between the first "{env:" and the final "}".
VarOf(x) ==
    IF x.t # "str" \/ ~\E i \in DOMAIN x.v : x.v[i] = "{" THEN <<>>
    ELSE LET i == CHOOSE i \in DOMAIN x.v : x.v[i] = "{" /\ \A k \in 1..(i - 1) : x.v[k] # "{"
         IN  SubSeq(x.v, i + 5, Len(x.v) - 1)

\* The maximal runs of letters and digits of s, in upper case.
RECURSIVE WordsOf(_)
WordsOf(s) ==
    IF s = <<>> THEN <<>>
    ELSE IF Head(s) \notin AlnumSet THEN WordsOf(Tail(s))
    ELSE LET n == CHOOSE n \in 1..Len(s) :
                      /\ \A k \in 1..n : s[k] \in AlnumSet
                      /\ n < Len(s) => s[n + 1] \notin AlnumSet
         IN  <<toUpperCase(SubSeq(s, 1, n))>> \o WordsOf(From(s, n + 1))

RECURSIVE JoinWords(_)
JoinWords(words) ==
    IF words = <<>> THEN <<>>
    ELSE IF Len(words) = 1 THEN words[1]
    ELSE words[1] \o <<"_">> \o JoinWords(Tail(words))

\* The token of a name: its words joined by single underscores, or the
\* fallback when it has no word.
TokenOf(name, fallback) == IF WordsOf(name) = <<>> THEN fallback ELSE JoinWords(WordsOf(name))

HeaderVarOf(prefix, s, h) ==
    IF h # <<>> /\ Range(h) \subseteq UpperSet \cup DigitSet \cup {"_"} THEN h
    ELSE prefix \o TokenOf(s, FALLBACK_SERVER) \o <<"_">> \o TokenOf(h, FALLBACK_VALUE)

OauthVarOf(prefix, s) == prefix \o TokenOf(s, FALLBACK_SERVER) \o <<"_">> \o OAUTH_CLIENT_SECRET

IsAuthName(h) == toLowerCase(h) \in {AUTHORIZATION, PROXY_AUTHORIZATION}

-----------------------------------------------------------------------------
(* The claims *)

\* C1: secretOverrides has an entry at exactly the header and client-secret
\* paths whose value in the document is a secret, and nowhere else; the
\* entry is the document's value, and sanitizedConfig holds a placeholder
\* string at that path.
C1_OverridesExactlyTheSecrets ==
    Done =>
        /\ \A q \in SecretPaths(config) :
              /\ At(secretOverrides, q) = At(config, q)
              /\ At(sanitizedConfig, q).t = "str"
              /\ IsPlaceholderString(At(sanitizedConfig, q).v)
        /\ LeafPaths(secretOverrides) \subseteq SecretPaths(config)

\* No server or header of the document is named __proto__.
NoProtoKey(cfg) == PROTO \notin ServerKeys(cfg) \cup HeaderKeys(cfg)

\* Beside the claims: for a document without a key __proto__ the overrides
\* are exactly the tree of the document's secrets.
OverridesExactWithoutProto ==
    Done /\ NoProtoKey(config) =>
        /\ secretOverrides =
              TreeOf({[path |-> q, leaf |-> At(config, q)] : q \in SecretPaths(config)})
        /\ \A q \in SecretPaths(config) :
              /\ At(sanitizedConfig, q).t = "str"
              /\ IsPlaceholderString(At(sanitizedConfig, q).v)

\* C2: every non-empty string left at a header or client-secret path of
\* sanitizedConfig is a placeholder string, {env:<name>} with at most a
\* scheme prefix before it and nothing else.
C2_OnlyPlaceholdersRemain ==
    Done =>
        \A q \in SecretLocations(sanitizedConfig) :
            LET x == At(sanitizedConfig, q)
            IN  x.t = "str" /\ x.v # <<>> => IsPlaceholderString(x.v)

\* Beside the claims: every such string holds a placeholder somewhere.
EveryStringHoldsAPlaceholder ==
    Done =>
        \A q \in SecretLocations(sanitizedConfig) :
            LET x == At(sanitizedConfig, q)
            IN  x.t = "str" /\ x.v # <<>> => ContainsPlaceholder(x.v)

\* C3: merging the overrides back into the sanitized config gives a
\* document deep-equal to the original.
C3_RoundTrip == pc = "merged" => OwnTree(merged) = OwnTree(config)

\* Beside the claims: the round trip of a document without a key __proto__.
RoundTripWithoutProto == pc = "merged" /\ NoProtoKey(config) => merged = config

\* C4: sanitizedConfig has the keys of the document and no other, and
\* every field that is neither a header or client-secret path nor above one
\* has the document's value.
C4_NonInterference ==
    Done =>
        /\ AllPaths(sanitizedConfig) = AllPaths(config)
        /\ \A q \in AllPaths(config) :
              (\A l \in SecretLocations(config) : ~IsPrefix(q, l))
                  => At(sanitizedConfig, q) = At(config, q)

\* Reached for C4: a secret was replaced in a document that holds a field
\* outside the header and client-secret paths.
C4_Witness ==
    /\ Done
    /\ SecretPaths(config) # {}
    /\ sanitizedConfig # config
    /\ \E q \in LeafPaths(config) : \A l \in SecretLocations(config) : ~IsPrefix(q, l)

\* The sanitized document and overrides the test suite expects for TEST_CONTEXT7.
EXPECTED_CONTEXT7 ==
    TreeOf({[path |-> <<MCP, CONTEXT7, <<"t", "y", "p", "e">>>>, leaf |-> Str(<<"r", "e", "m", "o", "t", "e">>)],
            [path |-> <<MCP, CONTEXT7, <<"u", "r", "l">>>>, leaf |-> Str(<<"h", "t", "t", "p", "s", ":", "/", "/", "m", "c", "p", ".", "c", "o", "n", "t", "e", "x", "t", "7", ".", "c", "o", "m", "/", "m", "c", "p">>)],
            [path |-> <<MCP, CONTEXT7, HEADERS, CONTEXT7_API_KEY>>,
             leaf |-> Str(<<"{", "e", "n", "v", ":", "C", "O", "N", "T", "E", "X", "T", "7", "_", "A", "P", "I", "_", "K", "E", "Y", "}">>)]})

SchemePreservedAt(h, x, sanitized) ==
    /\ sanitized.t = "str"
    /\ \E prefix \in (IF IsAuthName(h) /\ SchemePrefixesOf(x.v) # {}
                      THEN SchemePrefixesOf(x.v) ELSE {<<>>}) :
          sanitized.v = prefix \o <<"{", "e", "n", "v", ":">> \o VarOf(sanitized) \o <<"}">>

\* C6: an authorization header's secret keeps its scheme prefix before the
\* placeholder, any other secret becomes the placeholder alone, and in
\* every case the override records the whole original string.
C6_SchemePreservation ==
    Done =>
        \A q \in HeaderPaths(config) :
            IsSecret(At(config, q)) =>
                /\ SchemePreservedAt(q[4], At(config, q), At(sanitizedConfig, q))
                /\ VarOf(At(sanitizedConfig, q)) = HeaderVarOf(ENV_PREFIX, q[2], q[4])
                /\ At(secretOverrides, q) = At(config, q)

\* Beside the claims: the sanitized value of every header secret, without
\* what the override records.
SanitizedKeepsScheme ==
    Done =>
        \A q \in HeaderPaths(config) :
            IsSecret(At(config, q)) =>
                /\ SchemePreservedAt(q[4], At(config, q), At(sanitizedConfig, q))
                /\ VarOf(At(sanitizedConfig, q)) = HeaderVarOf(ENV_PREFIX, q[2], q[4])

\* The leaves of a tree: its values that are no mapping, and its empty mappings.
StripLeaves(value) ==
    {q \in AllPaths(value) : At(value, q).t # "obj" \/ DOMAIN At(value, q).v = {}} \ {<<>>}

\* A leaf of base at path q goes: toRemove has the whole path, or has a
\* value that is no mapping at a path above it.
StripRemoves(toRemove, q) ==
    \E n \in 1..Len(q) :
        LET r == At(toRemove, SubSeq(q, 1, n))
        IN  r # Undefined /\ (n = Len(q) \/ r.t # "obj")

\* C7: stripOverrideKeys(base, toRemove) is base without the key paths of
\* toRemove and without the mappings that emptied; stripOverrideKeys(X, X)
\* is empty; an argument that is no plain mapping gives base back.
C7_StripOverrideKeys ==
    pc = "stripped" =>
        IF stripBase.t = "obj" /\ stripRemove.t = "obj"
        THEN /\ stripped =
                  TreeOf({[path |-> q, leaf |-> At(stripBase, q)] :
                             q \in {q \in StripLeaves(stripBase) : ~StripRemoves(stripRemove, q)}})
             /\ stripBase = stripRemove => stripped = EmptyObject
        ELSE stripped = stripBase

\* Reached for C7: a nested mapping emptied and went with its key, while
\* another key of base stayed.
C7_Witness ==
    /\ pc = "stripped"
    /\ stripBase.t = "obj" /\ stripRemove.t = "obj"
    /\ stripped # EmptyObject
    /\ \E k \in DOMAIN stripBase.v \cap DOMAIN stripRemove.v :
          /\ stripBase.v[k].t = "obj" /\ stripRemove.v[k].t = "obj"
          /\ DOMAIN stripBase.v[k].v # {}
          /\ stripBase.v[k] # stripRemove.v[k]
          /\ k \notin DOMAIN stripped.v

\* Every header value and client secret of the document holds a placeholder.
AlreadySanitized(cfg) ==
    \A q \in SecretLocations(cfg) :
        At(cfg, q).t = "str" /\ ContainsPlaceholder(At(cfg, q).v)

\* C8: a document whose header values and client secrets all hold a
\* placeholder yields no override and comes back unchanged; so does the
\* sanitizedConfig of any extraction.
C8_Idempotence ==
    /\ Done /\ AlreadySanitized(config) =>
          secretOverrides = EmptyObject /\ sanitizedConfig = config
    /\ pc = "again" =>
          again.secretOverrides = EmptyObject /\ again.sanitizedConfig = sanitizedConfig

\* Reached for C8: the second extraction ran on a document the first one had
\* put a scheme-prefixed placeholder into, beside a value that already
\* held one in upper case.
C8_Witness ==
    /\ pc = "again"
    /\ \E q \in SecretPaths(config) :
          IsSchemePrefix(SubSeq(At(sanitizedConfig, q).v, 1, 7))
    /\ \E q \in SecretLocations(config) : At(config, q) = BEARER_ENV

LOWER_PREFIX == <<"o", "p", "e", "n", "c", "o", "d", "e", "_", "m", "c", "p", "_">>

\* C9: as the tests expect, a derived variable name starts with the lower
\* case opencode_mcp_, followed by the upper-case tokens.
C9_LowerCasePrefix ==
    Done =>
        /\ \A q \in HeaderPaths(config) :
              IsSecret(At(config, q)) =>
                  VarOf(At(sanitizedConfig, q)) = HeaderVarOf(LOWER_PREFIX, q[2], q[4])
        /\ \A q \in OauthPaths(config) :
              IsSecret(At(config, q)) =>
                  VarOf(At(sanitizedConfig, q)) = OauthVarOf(LOWER_PREFIX, q[2])
        /\ config = TEST_GITHUB =>
              /\ At(sanitizedConfig, <<MCP, GITHUB, HEADERS, AUTHORIZATION_HEADER>>)
                     = Str(<<"B", "e", "a", "r", "e", "r", " ", "{", "e", "n", "v", ":", "o", "p", "e", "n", "c", "o", "d", "e", "_", "m", "c", "p", "_", "G", "I", "T", "H", "U", "B", "_", "A", "U", "T", "H", "O", "R", "I", "Z", "A", "T", "I", "O", "N", "}">>)
              /\ At(sanitizedConfig, <<MCP, GITHUB, OAUTH, CLIENT_SECRET>>)
                     = Str(<<"{", "e", "n", "v", ":", "o", "p", "e", "n", "c", "o", "d", "e", "_", "m", "c", "p", "_", "G", "I", "T", "H", "U", "B", "_", "O", "A", "U", "T", "H", "_", "C", "L", "I", "E", "N", "T", "_", "S", "E", "C", "R", "E", "T", "}">>)
        /\ config = TEST_GITLAB =>
              At(sanitizedConfig, <<MCP, GITLAB, HEADERS, AUTHORIZATION_HEADER>>)
                  = Str(<<"T", "o", "k", "e", "n", " ", "{", "e", "n", "v", ":", "o", "p", "e", "n", "c", "o", "d", "e", "_", "m", "c", "p", "_", "G", "I", "T", "L", "A", "B", "_", "A", "U", "T", "H", "O", "R", "I", "Z", "A", "T", "I", "O", "N", "}">>)

\* C10: two secret locations of one document that hold different secrets
\* never get the same variable name.
C10_DistinctVariables ==
    Done =>
        \A q1, q2 \in SecretPaths(config) :
            q1 # q2 /\ At(config, q1) # At(config, q2)
                => VarOf(At(sanitizedConfig, q1)) # VarOf(At(sanitizedConfig, q2))
=============================================================================
